---- MODULE Spec2Model ----
(***************************************************************************)
(* Model of the handwritten-paper evaluator: DocumentProcessor              *)
(* (src/processor.py), HandwritingEvaluator (src/evaluator.py) and          *)
(* run_paper_evaluator (src/main.py).                                       *)
(*                                                                          *)
(* Text is modelled as a sequence of one-character strings, so that         *)
(* lower(), split(), strip(".,") and isdigit() are computed character by    *)
(* character.  A binary page image is modelled by its horizontal            *)
(* projection: one number per row, the row's ink sum.                       *)
(***************************************************************************)
EXTENDS Integers, Sequences, FiniteSets

VARIABLES
    \* ---- DocumentProcessor.extract_lines ----
    binary_image,      \* the ink mask, as the sequence of its row sums
    raw_intervals,     \* processor.py:56-61
    merged_intervals,  \* processor.py:64-76
    line_crops,        \* processor.py:79-87, each crop as its row band <<y1, y2>>
    pcLines,           \* "input" before extract_lines ran, "done" after
    \* ---- HandwritingEvaluator.segment_content ----
    seg_lines,         \* the line regions processed so far, each with what the
                       \* transcription collaborator returns for it
    structured_data,   \* evaluator.py:28, label -> accumulated text
    current_q,         \* evaluator.py:29, the active label
    pcSeg,             \* "loop" inside the for loop, "returned" after line 62
    \* ---- HandwritingEvaluator.grade_paper / compare_to_key ----
    student_map,       \* label -> student text
    master_key_map,    \* label -> key text
    wratio,            \* fuzz.WRatio, in tenths of a percent, on <<term, word>>
    weights,           \* label -> the weight map built for it, as the sequence
                       \* of its <<term, weight>> items in iteration order
    results,           \* evaluator.py:89, label -> result
    pcGrade,           \* "input" before grade_paper ran, "done" after
    \* ---- run_paper_evaluator ----
    pages,             \* processor.pages, each page as [doc, no]
    last_load,         \* how the most recent load_pdf call ended
    page_index,        \* pages of the current loop already processed
    all_page_results,  \* main.py:61
    stopped_after,     \* the page after which 'q' was pressed, 0 if never
    reports,           \* the calls of generate_final_report, each as its summary
    pc                 \* the position in run_paper_evaluator

linesVars == <<binary_image, raw_intervals, merged_intervals, line_crops, pcLines>>

segVars == <<seg_lines, structured_data, current_q, pcSeg>>

gradeVars == <<student_map, master_key_map, wratio, weights, results, pcGrade>>

runVars == <<pages, last_load, page_index, all_page_results, stopped_after, reports, pc>>

vars == <<linesVars, segVars, gradeVars, runVars>>

----------------------------------------------------------------------------
(* Generic helpers *)

Range(s) == {s[i] : i \in 1..Len(s)}

Max2(a, b) == IF a >= b THEN a ELSE b

Min2(a, b) == IF a <= b THEN a ELSE b

SetMax(S) == CHOOSE m \in S : \A x \in S : x <= m

\* a Python dict, as a function from its keys; EmptyDict is {}
EmptyDict == <<>>

\* d.update(e)
DictUpdate(d, e) == [x \in DOMAIN d \cup DOMAIN e |-> IF x \in DOMAIN e THEN e[x] ELSE d[x]]

\* d[k] = v
DictSet(d, k, v) == [x \in DOMAIN d \cup {k} |-> IF x = k THEN v ELSE d[x]]

----------------------------------------------------------------------------
(* Python str operations, on sequences of one-character strings *)

Digits == {"0", "1", "2", "3", "4", "5", "6", "7", "8", "9"}

\* str.isdigit on one character
IsDigit(c) == c \in Digits

\* any(char.isdigit() for char in s)
HasDigit(s) == \E i \in 1..Len(s) : IsDigit(s[i])

\* "".join(filter(str.isdigit, s))
DigitsOf(s) == SelectSeq(s, IsDigit)

UpperCase == <<"A", "B", "C", "D", "E", "F", "G", "H", "I", "J", "K", "L", "M",
               "N", "O", "P", "Q", "R", "S", "T", "U", "V", "W", "X", "Y", "Z">>

LowerCase == <<"a", "b", "c", "d", "e", "f", "g", "h", "i", "j", "k", "l", "m",
               "n", "o", "p", "q", "r", "s", "t", "u", "v", "w", "x", "y", "z">>

\* str.lower on one character
LowerChar(c) ==
    IF \E i \in 1..26 : UpperCase[i] = c
    THEN LowerCase[CHOOSE i \in 1..26 : UpperCase[i] = c]
    ELSE c

\* s.lower()
Lower(s) == [i \in 1..Len(s) |-> LowerChar(s[i])]

Whitespace == {" ", "\t", "\n"}

\* s.split(): the maximal runs of non-whitespace characters, in order
RECURSIVE SplitLoop(_, _, _, _)
SplitLoop(s, i, word, acc) ==
    IF i > Len(s)
    THEN IF word = <<>> THEN acc ELSE Append(acc, word)
    ELSE IF s[i] \in Whitespace
         THEN SplitLoop(s, i + 1, <<>>, IF word = <<>> THEN acc ELSE Append(acc, word))
         ELSE SplitLoop(s, i + 1, Append(word, s[i]), acc)

Split(s) == SplitLoop(s, 1, <<>>, <<>>)

\* w.strip(chars): drop the leading and the trailing characters that are in chars
RECURSIVE LStrip(_, _)
LStrip(w, chars) ==
    IF w # <<>> /\ w[1] \in chars THEN LStrip(Tail(w), chars) ELSE w

RECURSIVE RStrip(_, _)
RStrip(w, chars) ==
    IF w # <<>> /\ w[Len(w)] \in chars THEN RStrip(SubSeq(w, 1, Len(w) - 1), chars) ELSE w

Strip(w, chars) == RStrip(LStrip(w, chars), chars)

\* the orders in which a set can be iterated
Orders(S) == {o \in [1..Cardinality(S) -> S] : \A i, j \in DOMAIN o : i # j => o[i] # o[j]}

\* " ".join(parts)
RECURSIVE JoinSpace(_)
JoinSpace(parts) ==
    IF parts = <<>> THEN <<>>
    ELSE IF Len(parts) = 1 THEN parts[1]
    ELSE parts[1] \o <<" ">> \o JoinSpace(Tail(parts))

----------------------------------------------------------------------------
(* DocumentProcessor.extract_lines, src/processor.py:40-87 *)

\* the noise floor is 2% of the largest row sum (processor.py:46)
NoiseFloorPercent == 2

\* a run of ink rows is split where consecutive ink rows are more than 15 apart
SplitGap == 15

\* fragments closer than 40 rows belong to the same line
MergeGap == 40

\* merged intervals whose extent is not above 30 rows are dropped as noise
MinExtent == 30

\* rows added above and below each surviving interval
paddingWider == 20 + 1

padding == 20

\* row_sums > np.max(row_sums) * 0.02
IsInkRow(img, r, max) == img[r + 1] * 100 > max * NoiseFloorPercent

\* ink_rows = np.where(row_sums > threshold)[0]: the 0-based ink rows, ascending
InkRows(img) ==
    LET max == SetMax(Range(img))
    IN  SelectSeq([i \in 1..Len(img) |-> i - 1], LAMBDA r : IsInkRow(img, r, max))

\* diffs = np.diff(ink_rows)
Diffs(ink) == [k \in 1..(Len(ink) - 1) |-> ink[k + 1] - ink[k]]

\* breaks = np.where(diffs > 15)[0]: the 0-based positions of the wide gaps
Breaks(diffs) == SelectSeq([k \in 1..Len(diffs) |-> k - 1], LAMBDA b : diffs[b + 1] > SplitGap)

\* the loop of processor.py:57-61; ink is 1-based here, so ink_rows[b] is ink[b + 1]
RECURSIVE RawLoop(_, _, _, _, _)
RawLoop(ink, breaks, k, start, acc) ==
    IF k > Len(breaks)
    THEN Append(acc, <<start, ink[Len(ink)]>>)
    ELSE RawLoop(ink, breaks, k + 1, ink[breaks[k] + 2],
                 Append(acc, <<start, ink[breaks[k] + 1]>>))

RawIntervals(ink) == RawLoop(ink, Breaks(Diffs(ink)), 1, ink[1], <<>>)

\* "If gap is < 40px, it's the same line" (processor.py:71)
SameLine(next_start, curr_end) == (next_start - curr_end) < MergeGap

\* a merge that joins a fragment to its neighbour once and never extends an
\* interval that is already the result of a merge
RECURSIVE MergeLoopPairsOnce(_, _, _, _, _)
MergeLoopPairsOnce(raw, i, curr_start, curr_end, acc) ==
    IF i > Len(raw)
    THEN Append(acc, <<curr_start, curr_end>>)
    ELSE IF SameLine(raw[i][1], curr_end) /\ <<curr_start, curr_end>> \in Range(raw)
         THEN MergeLoopPairsOnce(raw, i + 1, curr_start, raw[i][2], acc)
         ELSE MergeLoopPairsOnce(raw, i + 1, raw[i][1], raw[i][2],
                                 Append(acc, <<curr_start, curr_end>>))

\* the loop of processor.py:67-76
RECURSIVE MergeLoop(_, _, _, _, _)
MergeLoop(raw, i, curr_start, curr_end, acc) ==
    IF i > Len(raw)
    THEN Append(acc, <<curr_start, curr_end>>)
    ELSE IF SameLine(raw[i][1], curr_end)
         THEN MergeLoop(raw, i + 1, curr_start, raw[i][2], acc)
         ELSE MergeLoop(raw, i + 1, raw[i][1], raw[i][2],
                        Append(acc, <<curr_start, curr_end>>))

SmartMerge(raw) ==
    IF raw = <<>> THEN <<>> ELSE MergeLoop(raw, 2, raw[1][1], raw[1][2], <<>>)

\* if (e - s) > 30 (processor.py:81)
KeepsInterval(s, e) == (e - s) > MinExtent

\* y1 = max(0, s - padding); y2 = min(shape[0], e + padding)
CropBand(img, s, e) == <<Max2(0, s - padding), Min2(Len(img), e + padding)>>

\* the loop of processor.py:79-85
RECURSIVE CropLoop(_, _, _, _)
CropLoop(img, merged, i, acc) ==
    IF i > Len(merged)
    THEN acc
    ELSE CropLoop(img, merged, i + 1,
                  IF KeepsInterval(merged[i][1], merged[i][2])
                  THEN Append(acc, CropBand(img, merged[i][1], merged[i][2]))
                  ELSE acc)

\* ---- the masks the line segmenter is run on ----

\* at most this many ink runs on a page
MaxRuns == 3

\* blank rows below the last run
TailRows == 10

\* blank rows in front of a run: 14 does not split, 15 and 38 split and merge
\* again, 39 separates two lines
RunGaps == {14, 15, 38, 39}

\* <<rows, row sum>> of a run: a speck, a run one row short of a line, a line,
\* and a faint run that falls under the noise floor next to a full one
RunKinds == {<<1, 100>>, <<31, 100>>, <<32, 100>>, <<32, 1>>}

Rows(n, v) == [i \in 1..n |-> v]

RECURSIVE BuildMask(_, _)
BuildMask(segs, i) ==
    IF i > Len(segs)
    THEN Rows(TailRows, 0)
    ELSE Rows(segs[i][1], 0) \o Rows(segs[i][2][1], segs[i][2][2]) \o BuildMask(segs, i + 1)

Masks == {BuildMask(segs, 1) : segs \in UNION {[1..n -> RunGaps \X RunKinds] : n \in 0..MaxRuns}}

LinesIdle ==
    /\ binary_image = <<0>>
    /\ raw_intervals = <<>>
    /\ merged_intervals = <<>>
    /\ line_crops = <<>>
    /\ pcLines = "idle"

InitLines ==
    /\ binary_image \in Masks
    /\ raw_intervals = <<>>
    /\ merged_intervals = <<>>
    /\ line_crops = <<>>
    /\ pcLines = "input"

ExtractLines ==
    /\ pcLines = "input"
    /\ pcLines' = "done"
    /\ UNCHANGED <<binary_image, segVars, gradeVars, runVars>>
    /\ LET ink_rows == InkRows(binary_image) IN
       IF Len(ink_rows) = 0
       THEN /\ raw_intervals' = <<>>
            /\ merged_intervals' = <<>>
            /\ line_crops' = <<>>
       ELSE /\ raw_intervals' = RawIntervals(ink_rows)
            /\ merged_intervals' = SmartMerge(raw_intervals')
            /\ line_crops' = CropLoop(binary_image, merged_intervals', 1, <<>>)

----------------------------------------------------------------------------
(* HandwritingEvaluator.segment_content, src/evaluator.py:22-62 *)

\* "General", the default bucket for text before any question number
General == <<"G", "e", "n", "e", "r", "a", "l">>

\* if line.shape[0] < 15: continue
MinLineHeight == 15

\* margin_results and any(char.isdigit() for char in margin_results[0])
MarginHasNumber(margin_results) ==
    margin_results # <<>> /\ HasDigit(margin_results[1])

\* current_q = f"Q{q_id}" with q_id the digits of margin_results[0]
MarginLabel(margin_results) == <<"Q">> \o DigitsOf(margin_results[1])

\* structured_data[current_q] += " " + " ".join(full_line_text)
AppendLine(text, full_line_text) == text \o <<" ">> \o JoinSpace(full_line_text)

\* a bucket created for every region that reaches the transcription step
EnsureBucketAlways(data, q, full_line_text) ==
    IF q \notin DOMAIN data THEN DictSet(data, q, <<>>) ELSE data

\* if full_line_text: if current_q not in structured_data: ... = ""
EnsureBucket(data, q, full_line_text) ==
    IF full_line_text # <<>> /\ q \notin DOMAIN data THEN DictSet(data, q, <<>>) ELSE data

\* one iteration of the for loop of evaluator.py:33-60 on the state
\* [data, q]; line is [h, margin_results, full_line_text]
SegmentLine(st, line) ==
    IF line.h < MinLineHeight
    THEN st
    ELSE LET numbered == MarginHasNumber(line.margin_results)
             q1 == IF numbered THEN MarginLabel(line.margin_results) ELSE st.q
             d1 == IF numbered /\ q1 \notin DOMAIN st.data
                   THEN DictSet(st.data, q1, <<>>)
                   ELSE st.data
             d2 == EnsureBucket(d1, q1, line.full_line_text)
             d3 == IF line.full_line_text # <<>>
                   THEN DictSet(d2, q1, AppendLine(d2[q1], line.full_line_text))
                   ELSE d2
         IN  [data |-> d3, q |-> q1]

\* segment_content(line_crops): the whole loop, returning structured_data
RECURSIVE SegmentLoop(_, _, _)
SegmentLoop(st, lines, i) ==
    IF i > Len(lines) THEN st ELSE SegmentLoop(SegmentLine(st, lines[i]), lines, i + 1)

SegmentContent(lines) == SegmentLoop([data |-> EmptyDict, q |-> General], lines, 1).data

\* ---- what the transcription collaborator returns for a line region ----

\* at most this many line regions on a page
MaxLines == 3

\* readtext(margin_box, detail=0): nothing, "Q2)", "3.", or the two
\* fragments "Q" and "3)"
MarginReadings ==
    { <<>>, << <<"Q", "2", ")">> >>, << <<"3", ".">> >>, << <<"Q">>, <<"3", ")">> >> }

\* readtext(color_line, detail=0, paragraph=True): nothing, one fragment, two
LineReadings == { <<>>, << <<"a", "b">> >>, << <<"c">>, <<"d">> >> }

\* the line regions: full-height ones with every reading, and one region
\* below the minimum height
LineRegions ==
    [h : {40}, margin_results : MarginReadings, full_line_text : LineReadings]
    \cup {[h |-> 10, margin_results |-> << <<"Q", "2", ")">> >>,
           full_line_text |-> << <<"a", "b">> >>]}

SegIdle ==
    /\ seg_lines = <<>>
    /\ structured_data = EmptyDict
    /\ current_q = General
    /\ pcSeg = "idle"

InitSeg ==
    /\ seg_lines = <<>>
    /\ structured_data = EmptyDict
    /\ current_q = General
    /\ pcSeg = "loop"

\* one pass of the for loop body (evaluator.py:33-60)
SegmentNextLine ==
    /\ pcSeg = "loop"
    /\ Len(seg_lines) < MaxLines
    /\ \E line \in LineRegions :
          LET st == SegmentLine([data |-> structured_data, q |-> current_q], line)
          IN  /\ seg_lines' = Append(seg_lines, line)
              /\ structured_data' = st.data
              /\ current_q' = st.q
    /\ UNCHANGED <<pcSeg, linesVars, gradeVars, runVars>>

\* return structured_data (evaluator.py:62)
SegmentReturn ==
    /\ pcSeg = "loop"
    /\ pcSeg' = "returned"
    /\ UNCHANGED <<seg_lines, structured_data, current_q, linesVars, gradeVars, runVars>>

----------------------------------------------------------------------------
(* HandwritingEvaluator.grade_paper and compare_to_key,                     *)
(* src/evaluator.py:84-132                                                  *)

\* "Assign 10 points per keyword found"
KeywordWeight == 10

\* "if len(w) > 4"
MinKeywordLength == 4

\* "80% similarity threshold", in tenths of a percent
SimilarityThreshold == 800

\* [w.strip(".,") for w in key_text.lower().split() if len(w) > 4]
KeyWordList(key_text) ==
    LET long == SelectSeq(Split(Lower(key_text)), LAMBDA w : Len(w) > MinKeywordLength)
    IN  [i \in 1..Len(long) |-> Strip(long[i], {".", ","})]

\* set([...]) of evaluator.py:96
KeyWords(key_text) == Range(KeyWordList(key_text))

\* weights = {word: 10 for word in key_words}, key_words in the order order
WeightMap(order) == [i \in 1..Len(order) |-> <<order[i], KeywordWeight>>]

\* process.extractOne(term, student_words, scorer=fuzz.WRatio): None (here 0
\* words) or the best score over the student's words
BestScore(sim, term, student_words) ==
    SetMax({sim[<<term, student_words[i]>>] : i \in 1..Len(student_words)})

\* match and match[1] >= 80
AcceptsAbove(score) == score > SimilarityThreshold

Accepts(score) == score >= SimilarityThreshold

IsMatch(sim, term, student_words) ==
    student_words # <<>> /\ Accepts(BestScore(sim, term, student_words))

\* f"{term} ({int(match[1])}%)"
Evidence(sim, term, student_words) ==
    [term |-> term, percent |-> BestScore(sim, term, student_words) \div 10]

\* the loop of evaluator.py:121-128 on [earned, found]
RECURSIVE CompareLoop(_, _, _, _, _)
CompareLoop(sim, weight_map, student_words, i, acc) ==
    IF i > Len(weight_map)
    THEN acc
    ELSE CompareLoop(sim, weight_map, student_words, i + 1,
            IF IsMatch(sim, weight_map[i][1], student_words)
            THEN [earned |-> acc.earned + weight_map[i][2],
                  found |-> Append(acc.found, Evidence(sim, weight_map[i][1], student_words))]
            ELSE acc)

RECURSIVE SumWeights(_)
SumWeights(weight_map) ==
    IF weight_map = <<>> THEN 0 ELSE weight_map[1][2] + SumWeights(Tail(weight_map))

\* round(earned / total * 100, 2), in hundredths of a percent; Python rounds a
\* tie to the even hundredth
Round2(earned, total) ==
    LET q == (10000 * earned) \div total
        r == (10000 * earned) % total
    IN  IF 2 * r < total THEN q
        ELSE IF 2 * r > total THEN q + 1
        ELSE IF q % 2 = 0 THEN q ELSE q + 1

\* compare_to_key(student_text, weight_map): [score, matches], the score in
\* hundredths of a percent
CompareToKey(sim, student_text, weight_map) ==
    IF student_text = <<>> \/ weight_map = <<>>
    THEN [score |-> 0, matches |-> <<>>]
    ELSE LET student_words == Split(Lower(student_text))
             out == CompareLoop(sim, weight_map, student_words, 1,
                                [earned |-> 0, found |-> <<>>])
             total == SumWeights(weight_map)
         IN  [score |-> IF total > 0 THEN Round2(out.earned, total) ELSE 0,
              matches |-> out.found]

NoMatchStatus == "No matching question in Answer Key"

\* a label without a key text graded as if its key text were empty
UnmatchedAsEmptyKey(q_num) == [score |-> 0, matches |-> <<>>]

\* results[q_num] = {"score": 0.0, "status": "No matching question in Answer Key"}
Unmatched(q_num) == [score |-> 0, status |-> NoMatchStatus]

\* list(set(...)): the key words of key_text in the iteration order that the
\* order iter, a sequence over all key words in play, induces
KeyWordOrder(iter, key_text) == SelectSeq(iter, LAMBDA w : w \in KeyWords(key_text))

\* the key words of every key text of a key map
AllKeyWords(key_map) == UNION {KeyWords(key_map[q]) : q \in DOMAIN key_map}

\* the weight maps grade_paper builds, one per student label that has a key
GradeWeights(s_map, key_map, iter) ==
    [q \in DOMAIN s_map \cap DOMAIN key_map |-> WeightMap(KeyWordOrder(iter, key_map[q]))]

\* grade_paper(student_map, master_key_map)
GradePaper(s_map, key_map, sim, iter) ==
    [q \in DOMAIN s_map |->
        IF q \in DOMAIN key_map
        THEN CompareToKey(sim, s_map[q], WeightMap(KeyWordOrder(iter, key_map[q])))
        ELSE Unmatched(q)]

\* the text of a bucket that received the given lines (evaluator.py:60)
RECURSIVE TextOf(_)
TextOf(words) == IF words = <<>> THEN <<>> ELSE <<" ">> \o words[1] \o TextOf(Tail(words))

\* every sequence over S of length at most n
SeqsUpTo(S, n) == UNION {[1..k -> S] : k \in 0..n}

\* the lower-cased words of the texts of a map
WordsOf(map) == UNION {Range(Split(Lower(map[q]))) : q \in DOMAIN map}

\* WRatio of a word with itself, in tenths of a percent
ExactMatch == 1000

\* WRatio of two different words: just below or just at the threshold
SimValues == {795, 800}

\* every outcome of the scorer on the key words and student words in play
SimTables(s_map, key_map) ==
    LET pairs == AllKeyWords(key_map) \X WordsOf(s_map)
    IN  {[p \in pairs |-> IF p[1] = p[2] THEN ExactMatch ELSE t[p]] : t \in [pairs -> SimValues]}

Q1 == <<"Q", "1">>

Q2 == <<"Q", "2">>

Q5 == <<"Q", "5">>

\* ---- inputs: key texts with capitals, punctuation and short words ----

\* at most this many words in a key text
MaxKeyWords == 3

RawKeyWords ==
    { <<"C", "e", "l", "l", "s", ",">>, <<"c", "e", "l", "l", "s">>,
      <<"W", "a", "l", "l", ",">>, <<"t", "h", "e">>,
      <<".", ",", ".", ",", ".">>, <<",", "n", "u", "c", "l", "e", "u", "s", ".">> }

InitGradeRubric ==
    /\ master_key_map \in {[q \in {Q1} |-> TextOf(ws)] : ws \in SeqsUpTo(RawKeyWords, MaxKeyWords)}
    /\ student_map = [q \in {Q1} |-> TextOf(<< <<"c", "e", "l", "l", "s">> >>)]
    /\ wratio = [p \in AllKeyWords(master_key_map) \X WordsOf(student_map) |->
                    IF p[1] = p[2] THEN ExactMatch ELSE 795]

\* ---- inputs: clean key words, every outcome of the scorer ----

\* at most this many terms in a rubric
MaxTerms == 3

CleanKeyWords ==
    << <<"a", "l", "g", "o", "r", "i", "t", "h", "m">>,
       <<"s", "t", "r", "u", "c", "t", "u", "r", "e">>,
       <<"q", "u", "e", "u", "e">>,
       <<"s", "t", "a", "c", "k">>,
       <<"g", "r", "a", "p", "h">> >>

StudentTexts ==
    { <<>>,
      TextOf(<< <<"a", "l", "g", "o", "r", "i", "t", "m">> >>),
      TextOf(<< <<"a", "l", "g", "o", "r", "i", "t", "m">>,
                <<"S", "t", "r", "u", "c", "t", "u", "r", "e">> >>) }

InitGradeScore ==
    /\ master_key_map \in {[q \in {Q1} |-> TextOf(SubSeq(CleanKeyWords, 1, n))] :
                              n \in 0..Min2(MaxTerms, Len(CleanKeyWords))}
    /\ student_map \in {[q \in {Q1} |-> t] : t \in StudentTexts}
    /\ wratio \in SimTables(student_map, master_key_map)

\* ---- inputs: student and key maps over different labels ----

InitGradeLabels ==
    /\ master_key_map \in
          UNION {[K -> {TextOf(SubSeq(CleanKeyWords, 1, 1))}] : K \in SUBSET {General, Q1, Q2}}
    /\ student_map \in
          UNION {[S -> {TextOf(<< <<"a", "l", "g", "o", "r", "i", "t", "m">> >>)}] :
                   S \in SUBSET {General, Q1, Q5}}
    /\ wratio \in SimTables(student_map, master_key_map)

GradeIdle ==
    /\ student_map = EmptyDict
    /\ master_key_map = EmptyDict
    /\ wratio = EmptyDict
    /\ weights = EmptyDict
    /\ results = EmptyDict
    /\ pcGrade = "idle"

InitGrade ==
    /\ InitGradeScore \/ InitGradeLabels \/ InitGradeRubric
    /\ weights = EmptyDict
    /\ results = EmptyDict
    /\ pcGrade = "input"

\* results = grade_paper(student_map, master_key_map)
GradePaperCall ==
    /\ pcGrade = "input"
    /\ pcGrade' = "done"
    /\ \E iter \in Orders(AllKeyWords(master_key_map)) :
          /\ weights' = GradeWeights(student_map, master_key_map, iter)
          /\ results' = GradePaper(student_map, master_key_map, wratio, iter)
    /\ UNCHANGED <<student_map, master_key_map, wratio, linesVars, segVars, runVars>>

----------------------------------------------------------------------------
(* run_paper_evaluator and generate_final_report, src/main.py:14-180, with  *)
(* DocumentProcessor.load_pdf, src/processor.py:10-18, and                  *)
(* HandwritingEvaluator.extract_key_from_pdf, src/evaluator.py:64-82        *)

\* at most this many pages in a document
MaxPages == 2

Cells == <<"c", "e", "l", "l", "s">>

Walls == <<"w", "a", "l", "l", "s">>

Region(margin_results, full_line_text) ==
    [h |-> 40, margin_results |-> margin_results, full_line_text |-> full_line_text]

\* what a page can hold: its line regions with their transcriptions, and the
\* presentation metrics of main.py:72-73 (calculate_neatness, estimate_content)
PageContents ==
    { [lines |-> <<>>, neatness |-> 0, words |-> 0],
      [lines |-> << Region(<< <<"Q", "2", ")">> >>, <<Cells>>) >>, neatness |-> 90, words |-> 1],
      [lines |-> << Region(<< <<"Q", "2", ")">> >>, <<Walls>>) >>, neatness |-> 90, words |-> 1],
      [lines |-> << Region(<<>>, <<Walls>>), Region(<< <<"3", ".">> >>, <<Cells, Walls>>) >>,
       neatness |-> 80, words |-> 3] }

\* fuzz.WRatio on the words of PageContents
RunWratio == [p \in {Cells, Walls} \X {Cells, Walls} |-> IF p[1] = p[2] THEN ExactMatch ELSE 795]

\* the pages convert_from_path returns for a document of n pages
Rendered(doc, n) == [k \in 1..n |-> [doc |-> doc, no |-> k]]

\* load_pdf(pdf_path): self.pages is assigned only when convert_from_path
\* succeeds; the except branch prints and leaves self.pages as it was
LoadPdf(old_pages, ok, doc, n) == IF ok THEN Rendered(doc, n) ELSE old_pages

RunIdle ==
    /\ pages = <<>>
    /\ last_load = "none"
    /\ page_index = 0
    /\ all_page_results = <<>>
    /\ stopped_after = 0
    /\ reports = <<>>
    /\ pc = "idle"

\* processor = DocumentProcessor(); evaluator = HandwritingEvaluator(...)
InitRun ==
    /\ pages = <<>>
    /\ last_load = "none"
    /\ page_index = 0
    /\ all_page_results = <<>>
    /\ stopped_after = 0
    /\ reports = <<>>
    /\ pc = "check_key_path"
    /\ student_map = EmptyDict
    /\ master_key_map = EmptyDict
    /\ wratio = RunWratio
    /\ weights = EmptyDict
    /\ results = EmptyDict
    /\ pcGrade = "idle"

\* if not os.path.exists(key_path): return (main.py:26-28)
CheckKeyPath ==
    /\ pc = "check_key_path"
    /\ \E exists \in BOOLEAN : pc' = IF exists THEN "load_key" ELSE "returned"
    /\ UNCHANGED <<pages, last_load, page_index, all_page_results, stopped_after, reports,
                   linesVars, segVars, gradeVars>>

\* processor.load_pdf(key_pdf_path); master_key_map = {} (evaluator.py:70-71)
LoadKeyPdf ==
    /\ pc = "load_key"
    /\ \E ok \in BOOLEAN, n \in 0..MaxPages :
          /\ pages' = LoadPdf(pages, ok, "key", n)
          /\ last_load' = IF ok THEN "ok" ELSE "failed"
    /\ master_key_map' = EmptyDict
    /\ page_index' = 0
    /\ pc' = "key_loop"
    /\ UNCHANGED <<all_page_results, stopped_after, reports, linesVars, segVars,
                   student_map, wratio, weights, results, pcGrade>>

\* one pass of the loop of evaluator.py:75-80
KeyPage ==
    /\ pc = "key_loop"
    /\ page_index < Len(pages)
    /\ \E content \in PageContents :
          LET page_map == SegmentContent(content.lines)
          IN  master_key_map' = DictUpdate(master_key_map, page_map)
    /\ page_index' = page_index + 1
    /\ UNCHANGED <<pages, last_load, all_page_results, stopped_after, reports, pc,
                   linesVars, segVars, student_map, wratio, weights, results, pcGrade>>

\* return master_key_map; if not master_key_map: return (evaluator.py:82,
\* main.py:38-40)
KeyReturn ==
    /\ pc = "key_loop"
    /\ page_index = Len(pages)
    /\ pc' = IF master_key_map = EmptyDict THEN "returned" ELSE "load_student"
    /\ UNCHANGED <<pages, last_load, page_index, all_page_results, stopped_after, reports,
                   linesVars, segVars, gradeVars>>

\* processor.load_pdf(student_path) (main.py:55)
LoadStudentPdf ==
    /\ pc = "load_student"
    /\ \E ok \in BOOLEAN, n \in 0..MaxPages :
          /\ pages' = LoadPdf(pages, ok, "student", n)
          /\ last_load' = IF ok THEN "ok" ELSE "failed"
    /\ pc' = "check_pages"
    /\ UNCHANGED <<page_index, all_page_results, stopped_after, reports,
                   linesVars, segVars, gradeVars>>

\* if not processor.pages: return; all_page_results = [] (main.py:57-61)
CheckPages ==
    /\ pc = "check_pages"
    /\ pc' = IF pages = <<>> THEN "returned" ELSE "page_loop"
    /\ page_index' = 0
    /\ all_page_results' = <<>>
    /\ UNCHANGED <<pages, last_load, stopped_after, reports, linesVars, segVars, gradeVars>>

\* the loop body of main.py:64-100 for the next page
StudentPage ==
    /\ pc = "page_loop"
    /\ page_index < Len(pages)
    /\ \E content \in PageContents, iter \in Orders(AllKeyWords(master_key_map)) :
          LET student_q_map == IF content.lines # <<>>
                               THEN SegmentContent(content.lines) ELSE EmptyDict
              page_grading == IF content.lines # <<>>
                              THEN GradePaper(student_q_map, master_key_map, wratio, iter)
                              ELSE EmptyDict
          IN  /\ student_map' = student_q_map
              /\ weights' = GradeWeights(student_q_map, master_key_map, iter)
              /\ results' = page_grading
              /\ all_page_results' = Append(all_page_results,
                     [page |-> page_index + 1, neatness |-> content.neatness,
                      grading |-> page_grading, words |-> content.words])
    /\ pc' = "wait_key"
    /\ UNCHANGED <<pages, last_load, page_index, stopped_after, reports,
                   linesVars, segVars, master_key_map, wratio, pcGrade>>

\* the loop goes on whatever key is pressed
StopsOnNoKey(key) == FALSE

\* cv2.waitKey(0) == ord('q')
StopsOn(key) == key = "q"

\* try: if cv2.waitKey(0) == ord('q'): break / except: pass (main.py:103-107),
\* then the next iteration or the end of the loop
WaitKey ==
    /\ pc = "wait_key"
    /\ \E key \in {"q", "other", "raises"} :
          /\ stopped_after' = IF key = "q" THEN page_index + 1 ELSE stopped_after
          /\ pc' = IF StopsOn(key) \/ page_index + 1 = Len(pages)
                    THEN "report" ELSE "page_loop"
    /\ page_index' = page_index + 1
    /\ UNCHANGED <<pages, last_load, all_page_results, reports, linesVars, segVars, gradeVars>>

\* consolidated_grading.update(p['grading']) over the results (main.py:127-130)
RECURSIVE Consolidate(_)
Consolidate(page_results) ==
    IF page_results = <<>> THEN EmptyDict
    ELSE DictUpdate(Consolidate(SubSeq(page_results, 1, Len(page_results) - 1)),
                    page_results[Len(page_results)].grading)

\* total_neatness += p['neatness'] over the results
RECURSIVE TotalNeatness(_)
TotalNeatness(page_results) ==
    IF page_results = <<>> THEN 0
    ELSE page_results[1].neatness + TotalNeatness(Tail(page_results))

\* grand_score += score over the consolidated results (main.py:135-140)
RECURSIVE GrandScore(_, _)
GrandScore(grading, labels) ==
    IF labels = {} THEN 0
    ELSE LET q == CHOOSE x \in labels : TRUE
         IN  grading[q].score + GrandScore(grading, labels \ {q})

\* generate_final_report(results): what the summary is computed from and the
\* totals it prints; the averages are the totals over the counts, 0 when
\* the count is 0 (main.py:173-174)
FinalReport(page_results) ==
    LET consolidated == Consolidate(page_results)
    IN  [pages |-> [k \in 1..Len(page_results) |-> page_results[k].page],
         total_neatness |-> TotalNeatness(page_results),
         consolidated_grading |-> consolidated,
         grand_score |-> GrandScore(consolidated, DOMAIN consolidated),
         total_questions_found |-> Cardinality(DOMAIN consolidated)]

\* generate_final_report(all_page_results, syllabus_map) (main.py:110)
GenerateFinalReport ==
    /\ pc = "report"
    /\ reports' = Append(reports, FinalReport(all_page_results))
    /\ pc' = "done"
    /\ UNCHANGED <<pages, last_load, page_index, all_page_results, stopped_after,
                   linesVars, segVars, gradeVars>>

----------------------------------------------------------------------------
(* Properties of extract_lines *)

ZeroInk(img) == \A r \in 1..Len(img) : img[r] = 0

\* the raw interval i lies inside the merged interval k
RawInMerged(i, k) ==
    /\ merged_intervals[k][1] <= raw_intervals[i][1]
    /\ raw_intervals[i][2] <= merged_intervals[k][2]

\* rows between the end of raw interval i and the start of the next one
RawGap(i) == raw_intervals[i + 1][1] - raw_intervals[i][2]

\* C8: the padded and clipped row bands [y1, y2) returned by extract_lines are
\* pairwise non-overlapping and strictly increasing in their start row, each
\* comes from a merged interval whose extent exceeds 30, and a mask without
\* ink yields the empty list.
C8_RegionsDisjointIncreasing ==
    pcLines = "done" =>
        /\ \A i, j \in 1..Len(line_crops) :
              i < j => /\ line_crops[i][2] <= line_crops[j][1]
                       /\ line_crops[i][1] < line_crops[j][1]
        /\ \A i \in 1..Len(line_crops) :
              \E k \in 1..Len(merged_intervals) :
                 /\ merged_intervals[k][2] - merged_intervals[k][1] > 30
                 /\ line_crops[i][1] = Max2(0, merged_intervals[k][1] - 20)
                 /\ line_crops[i][2] = Min2(Len(binary_image), merged_intervals[k][2] + 20)
        /\ ZeroInk(binary_image) => line_crops = <<>>

\* two lines exactly 40 rows apart: their padded bands touch without overlapping
C8_Witness ==
    /\ pcLines = "done"
    /\ Len(line_crops) >= 2
    /\ line_crops[1][2] = line_crops[2][1]

\* C9: two adjacent raw intervals end up in the same merged interval exactly
\* when the gap between them is below 40, so a run of raw fragments whose
\* adjacent gaps are all below 40 is emitted as one merged interval.
C9_MergeIffGapBelow40 ==
    pcLines = "done" =>
        /\ \A i \in 1..Len(raw_intervals) :
              Cardinality({k \in 1..Len(merged_intervals) : RawInMerged(i, k)}) = 1
        /\ \A i \in 1..(Len(raw_intervals) - 1) :
              (RawGap(i) < 40) <=>
                 \E k \in 1..Len(merged_intervals) : RawInMerged(i, k) /\ RawInMerged(i + 1, k)
        /\ \A i, j \in 1..Len(raw_intervals) :
              ( /\ i <= j
                /\ \A m \in i..(j - 1) : RawGap(m) < 40
                /\ i = 1 \/ RawGap(i - 1) >= 40
                /\ j = Len(raw_intervals) \/ RawGap(j) >= 40 ) =>
                 /\ <<raw_intervals[i][1], raw_intervals[j][2]>> \in Range(merged_intervals)
                 /\ \E k \in 1..Len(merged_intervals) : RawInMerged(i, k) /\ RawInMerged(j, k)

\* three fragments of different sizes, every adjacent gap below 40, one line
C9_Witness ==
    /\ pcLines = "done"
    /\ Len(raw_intervals) = 3
    /\ \A i \in 1..2 : RawGap(i) < 40
    /\ raw_intervals[1][2] - raw_intervals[1][1] # raw_intervals[2][2] - raw_intervals[2][1]
    /\ merged_intervals = <<<<raw_intervals[1][1], raw_intervals[3][2]>>>>

----------------------------------------------------------------------------
(* Properties of segment_content *)

\* all fragments of a reading, one after the other
RECURSIVE Concat(_)
Concat(parts) == IF parts = <<>> THEN <<>> ELSE parts[1] \o Concat(Tail(parts))

\* the whole margin transcription of a region
WholeMargin(line) == Concat(line.margin_results)

\* the first fragment of the margin transcription of a region
FirstMarginFragment(line) ==
    IF line.margin_results = <<>> THEN <<>> ELSE line.margin_results[1]

\* region i is processed (not dropped by the height guard)
Processed(i) == seg_lines[i].h >= 15

\* region i is processed and its margin text M shows a digit
SetsLabel(M(_), i) == Processed(i) /\ HasDigit(M(seg_lines[i]))

\* the label set by the most recent region at or before i whose margin text
\* shows a digit, or "General"
ActiveAt(M(_), i) ==
    LET setters == {j \in 1..i : SetsLabel(M, j)}
    IN  IF setters = {} THEN General
        ELSE <<"Q">> \o DigitsOf(M(seg_lines[SetMax(setters)]))

\* region i is processed and the collaborator returned text for the line
Transcribed(i) == Processed(i) /\ seg_lines[i].full_line_text # <<>>

\* the text label must hold after regions 1..i
RECURSIVE ExpectedText(_, _, _)
ExpectedText(M(_), label, i) ==
    IF i = 0 THEN <<>>
    ELSE ExpectedText(M, label, i - 1) \o
         (IF Transcribed(i) /\ ActiveAt(M, i) = label
          THEN <<" ">> \o JoinSpace(seg_lines[i].full_line_text)
          ELSE <<>>)

LabelsFollowMargin(M(_)) ==
    /\ current_q = ActiveAt(M, Len(seg_lines))
    /\ \A i \in 1..Len(seg_lines) : Transcribed(i) => ActiveAt(M, i) \in DOMAIN structured_data
    /\ \A label \in DOMAIN structured_data :
          structured_data[label] = ExpectedText(M, label, Len(seg_lines))

\* C6: the active label starts as "General"; a region whose margin
\* transcription contains a digit makes the active label "Q" followed by the
\* digit characters of that margin transcription; every transcribed line is
\* appended, after a space, to the bucket of the label active at that line.
C6_ActiveLabelFollowsMargin == LabelsFollowMargin(WholeMargin)

\* what segment_content does: only the first fragment of the margin reading
\* is inspected (margin_results[0])
SegmentFollowsFirstMarginFragment == LabelsFollowMargin(FirstMarginFragment)

LastLine(lines) == lines[Len(lines)]

\* the step processed one more region
RegionStep == Len(seg_lines') = Len(seg_lines) + 1

\* C5 as stated: a region whose line text comes back empty leaves the output
\* map and the active label as they were.
C5_EmptyLineChangesNothing ==
    [][(RegionStep /\ LastLine(seg_lines').full_line_text = <<>>) =>
          (structured_data' = structured_data /\ current_q' = current_q)]_vars

\* C5 amended: a region whose line text comes back empty and whose margin
\* transcription contains no digit leaves the output map and the active
\* label as they were.
C5_EmptyUnnumberedLineChangesNothing ==
    [][(RegionStep /\ LastLine(seg_lines').full_line_text = <<>>
                   /\ ~HasDigit(WholeMargin(LastLine(seg_lines')))) =>
          (structured_data' = structured_data /\ current_q' = current_q)]_vars

\* an empty, unnumbered region was processed after a question had been opened
C5_Witness ==
    /\ Len(seg_lines) >= 2
    /\ LastLine(seg_lines).h >= 15
    /\ LastLine(seg_lines).full_line_text = <<>>
    /\ LastLine(seg_lines).margin_results = <<>>
    /\ current_q # General
    /\ structured_data # EmptyDict

----------------------------------------------------------------------------
(* Properties of grade_paper and compare_to_key *)

Terms(weight_map) == [i \in 1..Len(weight_map) |-> weight_map[i][1]]

\* the best similarity of a term against the words is at least 80
TermFound(words, term) == \E i \in 1..Len(words) : wratio[<<term, words[i]>>] >= 800

\* the weight of the terms of a weight map that are found among the words
RECURSIVE Earned(_, _)
Earned(words, weight_map) ==
    IF weight_map = <<>> THEN 0
    ELSE (IF TermFound(words, weight_map[1][1]) THEN weight_map[1][2] ELSE 0)
         + Earned(words, Tail(weight_map))

RECURSIVE Total(_)
Total(weight_map) == IF weight_map = <<>> THEN 0 ELSE weight_map[1][2] + Total(Tail(weight_map))

\* the parts of C3 that do not depend on how the score is rounded: the empty
\* cases; the evidence names exactly the found terms, once each, in the order
\* of the weight map; the score lies in [0, 100] and is 0 when nothing is found
ScorerShape(text, weight_map, result) ==
    IF text = <<>> \/ weight_map = <<>>
    THEN result = [score |-> 0, matches |-> <<>>]
    ELSE LET words == Split(Lower(text)) IN
         /\ [i \in 1..Len(result.matches) |-> result.matches[i].term]
               = SelectSeq(Terms(weight_map), LAMBDA t : TermFound(words, t))
         /\ result.score >= 0 /\ result.score <= 10000
         /\ (\A i \in 1..Len(weight_map) : ~TermFound(words, weight_map[i][1])) =>
               result.score = 0

\* the score is exactly 100 * earned / total
ExactScore(text, weight_map, result) ==
    result.score * Total(weight_map) = 10000 * Earned(Split(Lower(text)), weight_map)

\* the score is 100 * earned / total to the nearest hundredth
RoundedScore(text, weight_map, result) ==
    LET total == Total(weight_map)
        diff == result.score * total - 10000 * Earned(Split(Lower(text)), weight_map)
    IN  2 * diff <= total /\ -2 * diff <= total

Scored(q) == student_map[q] # <<>> /\ weights[q] # <<>>

\* C3 as stated: compare_to_key returns (0, []) for an empty text or an empty
\* weight map; otherwise the evidence is exactly the terms whose best
\* similarity is >= 80, in rubric order, and the score equals
\* 100 * (weight of those terms) / (weight of all terms), within [0, 100].
C3_ScoreIsExactRatio ==
    pcGrade = "done" =>
        \A q \in DOMAIN weights :
            /\ ScorerShape(student_map[q], weights[q], results[q])
            /\ Scored(q) => ExactScore(student_map[q], weights[q], results[q])

\* C3 amended: as C3, with the score equal to that ratio rounded to two
\* decimals (the nearest hundredth of a percent).
C3_ScoreIsRoundedRatio ==
    pcGrade = "done" =>
        \A q \in DOMAIN weights :
            /\ ScorerShape(student_map[q], weights[q], results[q])
            /\ Scored(q) => RoundedScore(student_map[q], weights[q], results[q])

\* three terms, one of them found at exactly 80 and one missed at 79.5:
\* the score is 66.67
C3_Witness ==
    /\ pcGrade = "done"
    /\ \E q \in DOMAIN weights :
          /\ Len(weights[q]) = 3
          /\ Len(results[q].matches) = 2
          /\ results[q].score = 6667
          /\ \E i \in 1..2 : results[q].matches[i].percent = 80

\* C4: grade_paper returns one result per student label and none for other
\* labels; a label without a key text gets score 0 with the status
\* "No matching question in Answer Key" and is not scored; a label with a key
\* text gets a scored result with a matches list, whatever the other labels.
C4_OneResultPerStudentLabel ==
    pcGrade = "done" =>
        /\ DOMAIN results = DOMAIN student_map
        /\ \A q \in DOMAIN student_map :
              IF q \in DOMAIN master_key_map
              THEN /\ DOMAIN results[q] = {"score", "matches"}
                   /\ q \in DOMAIN weights
              ELSE /\ results[q] = [score |-> 0, status |-> "No matching question in Answer Key"]
                   /\ q \notin DOMAIN weights

\* a label without a key text next to a label that is graded above zero
C4_Witness ==
    /\ pcGrade = "done"
    /\ \E q \in DOMAIN student_map : q \notin DOMAIN master_key_map
    /\ \E q \in DOMAIN student_map :
          /\ q \in DOMAIN master_key_map
          /\ results[q].score = 10000
          /\ results[q].matches # <<>>

\* the reference construction of the rubric: lower-case, split on whitespace,
\* strip "." and "," from each token, then keep the tokens longer than 4
ReferenceRubric(key_text) ==
    LET tokens == Split(Lower(key_text))
    IN  {w \in {Strip(tokens[i], {".", ","}) : i \in 1..Len(tokens)} : Len(w) > 4}

\* C7: every term of the rubric grade_paper builds is lower-case, has no "."
\* or "," at its end, is longer than 4 characters, occurs once and has weight
\* 10; the rubric equals the reference construction.
C7_RubricTermsWellFormed ==
    pcGrade = "done" =>
        \A q \in DOMAIN weights :
            /\ \A i \in 1..Len(weights[q]) :
                  LET term == weights[q][i][1] IN
                  /\ term = Lower(term)
                  /\ term # <<>> => term[Len(term)] \notin {".", ","}
                  /\ Len(term) > 4
                  /\ weights[q][i][2] = 10
            /\ \A i, j \in 1..Len(weights[q]) : i # j => weights[q][i][1] # weights[q][j][1]
            /\ Range(Terms(weights[q])) = ReferenceRubric(master_key_map[q])

----------------------------------------------------------------------------
(* Properties of run_paper_evaluator, load_pdf and extract_key_from_pdf *)

\* C1: a failed rasterization yields zero pages: if the most recent load_pdf
\* call failed, the processor's page list is empty, so that a run whose
\* student document fails to load segments and grades no page.
C1_FailedLoadYieldsNoPages ==
    last_load = "failed" => (pages = <<>> /\ all_page_results = <<>>)

IsPrefix(a, b) == Len(a) <= Len(b) /\ SubSeq(b, 1, Len(a)) = a

\* C2: within the pass over the answer key a question block is only appended
\* to and never deleted: a label of the master key map stays in it, and its
\* text after a page is a prefix of its text after every later page.
C2_KeyBlocksOnlyGrow ==
    [][(pc = "key_loop" /\ pc' = "key_loop") =>
          \A label \in DOMAIN master_key_map :
              /\ label \in DOMAIN master_key_map'
              /\ IsPrefix(master_key_map[label], master_key_map'[label])]_vars

\* the labels graded on the first n pages
LabelsUpTo(n) == UNION {DOMAIN all_page_results[k].grading : k \in 1..n}

\* the number of pages the report must cover
PagesCompleted == IF stopped_after # 0 THEN stopped_after ELSE Len(pages)

\* C10: pages are processed in document order and the stop signal is checked
\* between pages: once it is given after page i no further page is processed,
\* the final report is generated exactly once and covers exactly pages 1..i;
\* without the signal it covers all pages.
C10_StopEarlyReportsCompletedPages ==
    /\ \A k \in 1..Len(all_page_results) : all_page_results[k].page = k
    /\ Len(all_page_results) <= Len(pages)
    /\ stopped_after # 0 =>
          /\ Len(all_page_results) = stopped_after
          /\ pc \in {"report", "done"}
    /\ Len(reports) = (IF pc = "done" THEN 1 ELSE 0)
    /\ pc = "done" =>
          /\ Len(all_page_results) = PagesCompleted
          /\ reports[1].pages = [k \in 1..PagesCompleted |-> k]
          /\ DOMAIN reports[1].consolidated_grading = LabelsUpTo(PagesCompleted)
          /\ reports[1].total_questions_found = Cardinality(LabelsUpTo(PagesCompleted))

\* 'q' pressed after the first of two student pages: the report covers page 1
C10_Witness ==
    /\ pc = "done"
    /\ stopped_after = 1
    /\ Len(pages) = 2
    /\ pages[1].doc = "student"
    /\ reports[1].pages = <<1>>
    /\ reports[1].total_questions_found > 0

----------------------------------------------------------------------------
(* Specifications *)

\* extract_lines applied to every mask of Masks
InitLinesSpec == InitLines /\ SegIdle /\ GradeIdle /\ RunIdle

NextLines == ExtractLines

SpecLines == InitLinesSpec /\ [][NextLines]_vars

\* segment_content, line region by line region
InitSegSpec == InitSeg /\ LinesIdle /\ GradeIdle /\ RunIdle

NextSeg == SegmentNextLine \/ SegmentReturn

SpecSeg == InitSegSpec /\ [][NextSeg]_vars

\* grade_paper applied to every input of InitGrade
InitGradeSpec == InitGrade /\ LinesIdle /\ SegIdle /\ RunIdle

NextGrade == GradePaperCall

SpecGrade == InitGradeSpec /\ [][NextGrade]_vars

\* one run of run_paper_evaluator
InitRunSpec == InitRun /\ LinesIdle /\ SegIdle

NextRun ==
    \/ CheckKeyPath
    \/ LoadKeyPdf
    \/ KeyPage
    \/ KeyReturn
    \/ LoadStudentPdf
    \/ CheckPages
    \/ StudentPage
    \/ WaitKey
    \/ GenerateFinalReport

SpecRun == InitRunSpec /\ [][NextRun]_vars

====
